---- MODULE Spec2Model ----
(***************************************************************************)
(* Agreement lifecycle of the roommate-agreement service: the agreement    *)
(* status machine, its parties, invite tokens, payments and signature      *)
(* envelopes, as mutated by the HTTP handlers of app/routers/agreements.py, *)
(* app/routers/invites.py and app/routers/webhooks.py.  Every handler is    *)
(* one action (one request = one database transaction).                    *)
(***************************************************************************)
EXTENDS Integers, Sequences, FiniteSets, TLC

\* ------------------------------------------------------------------ bounds
MaxParties   == 3      \* rows of agreement_party per model run
MaxPayments  == 2      \* rows of payment per model run
MaxTokens    == 1      \* invite tokens ever generated
MaxEnvelopes == 1      \* rows of signature_envelope per model run
MaxClock     == 8
MaxVerifications == 2      \* last day the clock reaches

\* --------------------------------------------------------------- constants
INVITE_EXPIRY_DAYS == 7

AgreementIds == {"a1"}
Users        == {"u1", "u2"}
\* AppUser.email; e-mail addresses a request body may carry
UserEmail    == [u \in Users |-> IF u = "u1" THEN "a@x.com" ELSE "B@x.com"]
Emails       == {"a@x.com", "b@x.com"}
\* a comparison key that keeps the letter case
Lower_exact(e) == e
\* str.lower()
Lower(e)     == IF e = "B@x.com" THEN "b@x.com" ELSE e
NULL         == "NULL"
\* days the clock may jump in one step: past the expiry of every invite issued before
ClockSteps   == {INVITE_EXPIRY_DAYS + 1}

\* Agreement.status, in lifecycle order (models.py); "absent" = no row yet
StatusOrder == <<"draft", "awaiting_payment", "paid", "inviting", "signing", "completed">>
Statuses    == {StatusOrder[i] : i \in 1..Len(StatusOrder)} \cup {"void"}
Rank(s)     == CHOOSE i \in 1..Len(StatusOrder) : StatusOrder[i] = s

\* values DocuSign Connect may deliver in payload["status"]; "sent" stands for
\* every status the handler only stores
EnvelopeEvents == {"sent", "completed", "voided"}
\* Coinbase Commerce event types
CoinbaseEvents == {"charge:confirmed", "charge:failed", "charge:pending", "charge:created"}

VARIABLES
    app_user,            \* [Users -> [is_verified]]
    demo_mode,           \* settings.demo_mode
    agreement,           \* [AgreementIds -> [status, initiator_id, title, terms]]; title
                         \* stands for the columns of AgreementUpdate, terms for the
                         \* AgreementTerms row of the agreement
    agreement_party,     \* sequence of AgreementParty rows
    invite_token,        \* set of InviteToken rows
    next_token,          \* next fresh token value
    payment,             \* sequence of Payment rows
    signature_envelope,  \* sequence of SignatureEnvelope rows
    now,                 \* datetime.utcnow(), in days
    session,             \* [Sessions -> the writes a request in flight has pending]
    id_verification      \* sequence of IdVerification rows

db   == <<agreement, agreement_party, invite_token, next_token, payment, signature_envelope>>
env  == <<app_user, demo_mode, now, session, id_verification>>
vars == <<app_user, demo_mode, agreement, agreement_party, invite_token, next_token,
          payment, signature_envelope, now, session, id_verification>>

\* ----------------------------------------------------------------- helpers
Indices(s)        == 1..Len(s)
PartiesOf(a)      == {i \in Indices(agreement_party) : agreement_party[i].agreement_id = a}
PaymentsOf(a)     == {i \in Indices(payment) : payment[i].agreement_id = a}
EnvelopesOf(a)    == {i \in Indices(signature_envelope) : signature_envelope[i].agreement_id = a}
TokensOf(a)       == {t \in invite_token : t.agreement_id = a}
Exists(a)         == agreement[a].status # "absent"

\* an HTTP response: status code, the error it reports, the count in its detail
Resp(code, detail, n) == [code |-> code, detail |-> detail, n |-> n]
Ok                    == Resp(200, "ok", 0)

require_verified_user(u) == app_user[u].is_verified

\* get_db: every request works in a SessionLocal() of its own; two requests
\* can be in flight at a time
Sessions == {1, 2}

\* a session with nothing to flush
NoRequest ==
    [op |-> "none", a |-> NULL, status |-> NULL, parties |-> <<>>, issued |-> <<>>,
     reissued |-> {}, expires_at |-> 0, link |-> <<>>, use |-> <<>>]

\* the lookup without the initiator_id filter
OwnAgreement_any(a, u) == Exists(a)

\* db.query(Agreement).filter(id == a, initiator_id == user.id).first()
OwnAgreement(a, u) == Exists(a) /\ agreement[a].initiator_id = u

Init ==
    /\ app_user = [u \in Users |-> [is_verified |-> (u = "u1")]]
    /\ demo_mode = FALSE
    /\ agreement = [a \in AgreementIds |-> [status |-> "absent", initiator_id |-> NULL, title |-> NULL, terms |-> NULL]]
    /\ agreement_party = <<>>
    /\ invite_token = {}
    /\ next_token = 1
    /\ payment = <<>>
    /\ signature_envelope = <<>>
    /\ now = 0
    /\ session = [p \in Sessions |-> NoRequest]
    /\ id_verification = <<>>

\* ------------------------------------------------------------------- clock
Tick ==
    /\ \E d \in ClockSteps : now + d <= MaxClock /\ now' = now + d
    /\ UNCHANGED <<app_user, demo_mode, session, id_verification, db>>

\* ------------------------------------------------------- POST /agreements
NewParty(a, uid, role, email) ==
    [agreement_id |-> a, user_id |-> uid, role |-> role, email |-> email,
     requires_id_verification |-> FALSE, id_verified |-> FALSE,
     signed |-> FALSE, signed_at |-> <<>>]

\* body.parties: the placeholder rows the client may send with create
\* (requires_id_verification is a field of the schema the handlers never read)
PartyCreate  == [email : Emails, role : {"roommate", "initiator"},
                 requires_id_verification : BOOLEAN]
CreateBodies == {<<>>} \cup {<<p>> : p \in PartyCreate}

BodyParties(a, parties) ==
    [i \in Indices(parties) |-> NewParty(a, NULL, parties[i].role, parties[i].email)]

\* create_outcome without require_verified_user
create_outcome_unverified(u) == Resp(201, "ok", 0)

create_outcome(u) ==
    IF ~require_verified_user(u) THEN Resp(403, "not_verified", 0)
    ELSE Resp(201, "ok", 0)

\* body.terms: absent (None) or given
TermsBodies == {NULL, "terms"}

\* the handler for a body with the given parties and terms
create_with(a, u, parties, terms) ==
    /\ ~Exists(a)
    /\ IF create_outcome(u).code # 201
       THEN UNCHANGED db
       ELSE /\ Len(agreement_party) + 1 + Len(parties) <= MaxParties
            /\ agreement' = [agreement EXCEPT ![a] =
                   [status |-> "draft", initiator_id |-> u, title |-> "t1",
                    terms |-> terms]]
            /\ agreement_party' = agreement_party
                                  \o <<NewParty(a, u, "initiator", UserEmail[u])>>
                                  \o BodyParties(a, parties)
            /\ UNCHANGED <<invite_token, next_token, payment, signature_envelope>>
    /\ UNCHANGED env

\* a create whose body gives the terms
create_agreement(a, u, parties) == create_with(a, u, parties, "terms")

\* a create whose body gives the terms or leaves them out
create_any(a, u, parties) == \E terms \in TermsBodies : create_with(a, u, parties, terms)

\* ------------------------------------------- PATCH /agreements/{id}
Titles == {"t1", "t2"}

\* body.model_dump(exclude_unset=True): no field set, or the title
UpdateBodies == {<<>>} \cup {<<t>> : t \in Titles}

\* update_outcome without the check of the status
update_outcome_any(a, u) ==
    IF ~require_verified_user(u) THEN Resp(403, "not_verified", 0)
    ELSE IF ~OwnAgreement(a, u) THEN Resp(404, "not_found", 0)
    ELSE Ok

update_outcome(a, u) ==
    IF ~require_verified_user(u) THEN Resp(403, "not_verified", 0)
    ELSE IF ~OwnAgreement(a, u) THEN Resp(404, "not_found", 0)
    ELSE IF agreement[a].status \notin {"draft"} THEN Resp(400, "not_draft", 0)
    ELSE Ok

update_agreement(a, u, body) ==
    /\ IF update_outcome(a, u) # Ok
       THEN UNCHANGED db
       ELSE /\ agreement' = IF body = <<>> THEN agreement
                            ELSE [agreement EXCEPT ![a].title = body[1]]
            /\ UNCHANGED <<agreement_party, invite_token, next_token, payment,
                           signature_envelope>>
    /\ UNCHANGED env

\* ------------------------------------- POST /agreements/{id}/finalize
\* finalize_outcome without the check of the status
finalize_outcome_any(a, u) ==
    IF ~require_verified_user(u) THEN Resp(403, "not_verified", 0)
    ELSE IF ~OwnAgreement(a, u) THEN Resp(404, "not_found", 0)
    ELSE Ok

finalize_outcome(a, u) ==
    IF ~require_verified_user(u) THEN Resp(403, "not_verified", 0)
    ELSE IF ~OwnAgreement(a, u) THEN Resp(404, "not_found", 0)
    ELSE IF agreement[a].status # "draft" THEN Resp(400, "not_draft", 0)
    ELSE Ok

finalize_draft(a, u) ==
    /\ IF finalize_outcome(a, u) # Ok
       THEN UNCHANGED db
       ELSE /\ agreement' = [agreement EXCEPT ![a].status = "awaiting_payment"]
            /\ UNCHANGED <<agreement_party, invite_token, next_token, payment, signature_envelope>>
    /\ UNCHANGED env

\* ------------------------------------------ POST /agreements/{id}/pay
\* ids the providers hand out: Stripe checkout sessions, Stripe payment
\* intents, Coinbase charges; the n-th Payment row gets the n-th id
StripeSessionIds  == {<<"cs", n>> : n \in 1..(MaxPayments + 1)}
StripeIntentIds   == {<<"pi", n>> : n \in 1..(MaxPayments + 1)}
CoinbaseChargeIds == {<<"ch", n>> : n \in 1..(MaxPayments + 1)}

NewPayment(a, method, ref) ==
    [agreement_id |-> a, method |-> method, status |-> "pending", provider_ref |-> ref]

\* which of the two providers answered: both, Stripe only, neither
CheckoutOutcomes == {<<TRUE, TRUE>>, <<TRUE, FALSE>>, <<FALSE, FALSE>>}

\* card_ok / crypto_ok: whether start_card_checkout / start_crypto_checkout
\* returned (TRUE) or raised (FALSE, swallowed by the except clause)
CheckoutOutcomesAll == BOOLEAN \X BOOLEAN

\* CheckoutRows recording a failed row for a checkout that raised
CheckoutRows_failed(a, card_ok, crypto_ok) ==
    LET card == <<[NewPayment(a, "card", <<"cs", Len(payment) + 1>>)
                      EXCEPT !.status = IF card_ok THEN "pending" ELSE "failed"]>>
        crypto == <<[NewPayment(a, "solana", <<"ch", Len(payment) + 2>>)
                        EXCEPT !.status = IF crypto_ok THEN "pending" ELSE "failed"]>>
    IN card \o crypto

CheckoutRows(a, card_ok, crypto_ok) ==
    LET card == IF card_ok
                THEN <<NewPayment(a, "card", <<"cs", Len(payment) + 1>>)>>
                ELSE <<>>
        crypto == IF crypto_ok
                  THEN <<NewPayment(a, "solana", <<"ch", Len(payment) + Len(card) + 1>>)>>
                  ELSE <<>>
    IN card \o crypto

pay_outcome(a, u) ==
    IF ~require_verified_user(u) THEN Resp(403, "not_verified", 0)
    ELSE IF ~OwnAgreement(a, u) THEN Resp(404, "not_found", 0)
    ELSE IF agreement[a].status # "awaiting_payment" THEN Resp(400, "not_finalized", 0)
    ELSE Ok

initiate_payment(a, u, card_ok, crypto_ok) ==
    /\ IF pay_outcome(a, u) # Ok
       THEN UNCHANGED db
       ELSE /\ Len(payment) + Len(CheckoutRows(a, card_ok, crypto_ok)) <= MaxPayments
            /\ payment' = payment \o CheckoutRows(a, card_ok, crypto_ok)
            /\ UNCHANGED <<agreement, agreement_party, invite_token, next_token, signature_envelope>>
    /\ UNCHANGED env

\* --------------------------------------- POST /agreements/{id}/invite
\* Payment Ledger: a Payment row of the agreement with status succeeded
HasSucceeded(a) == \E i \in PaymentsOf(a) : payment[i].status = "succeeded"

\* body.roommates: the e-mail addresses the initiator invites
InviteBodies == {<<>>} \cup {<<e>> : e \in Emails} \cup {<<e, f>> : e \in Emails, f \in Emails}

NewInviteToken(a, email, value, expires_at) ==
    [agreement_id |-> a, email |-> email, token |-> value, is_used |-> FALSE,
     used_by_user_id |-> NULL, expires_at |-> expires_at]

\* InviteOne without the lookup of an unused invite to re-issue
InviteOne_fresh(a, email, expires_at, st) ==
    LET joined == \E i \in Indices(st.party) :
                      /\ st.party[i].agreement_id = a
                      /\ st.party[i].email = email
                      /\ st.party[i].user_id # NULL
        has_party == \E i \in Indices(st.party) :
                      st.party[i].agreement_id = a /\ st.party[i].email = email
    IN IF joined THEN st
       ELSE [party  |-> IF has_party THEN st.party
                        ELSE Append(st.party, NewParty(a, NULL, "roommate", email)),
             tokens |-> st.tokens \cup {NewInviteToken(a, email, st.next, expires_at)},
             next   |-> st.next + 1]

\* one pass of "for roommate in body.roommates" over the session state
\* st = [party, tokens, next]; returns the state after the pass
InviteOne(a, email, expires_at, st) ==
    LET joined == \E i \in Indices(st.party) :
                      /\ st.party[i].agreement_id = a
                      /\ st.party[i].email = email
                      /\ st.party[i].user_id # NULL
        unused == {t \in st.tokens : t.agreement_id = a /\ t.email = email /\ ~t.is_used}
        has_party == \E i \in Indices(st.party) :
                      st.party[i].agreement_id = a /\ st.party[i].email = email
    IN IF joined THEN st
       ELSE IF unused # {}
       THEN LET t == CHOOSE x \in unused : TRUE
            IN [st EXCEPT !.tokens = (st.tokens \ {t})
                                     \cup {[t EXCEPT !.expires_at = expires_at]}]
       ELSE [party  |-> IF has_party THEN st.party
                        ELSE Append(st.party, NewParty(a, NULL, "roommate", email)),
             tokens |-> st.tokens \cup {NewInviteToken(a, email, st.next, expires_at)},
             next   |-> st.next + 1]

RECURSIVE InviteLoop(_, _, _, _)
InviteLoop(a, roommates, expires_at, st) ==
    IF roommates = <<>> THEN st
    ELSE InviteLoop(a, Tail(roommates), expires_at,
                    InviteOne(a, Head(roommates), expires_at, st))

\* invite_outcome without the payment check
invite_outcome_unpaid(a, u) ==
    IF ~require_verified_user(u) THEN Resp(403, "not_verified", 0)
    ELSE IF ~OwnAgreement(a, u) THEN Resp(404, "not_found", 0)
    ELSE Ok

invite_outcome(a, u) ==
    IF ~require_verified_user(u) THEN Resp(403, "not_verified", 0)
    ELSE IF ~OwnAgreement(a, u) THEN Resp(404, "not_found", 0)
    ELSE IF agreement[a].status \notin {"paid", "inviting"} /\ ~HasSucceeded(a)
    THEN Resp(402, "payment_required", 0)
    ELSE Ok

\* the handler, taken while at most max_tokens invites have ever been issued
invite_upto(a, u, roommates, max_tokens) ==
    /\ IF invite_outcome(a, u) # Ok
       THEN UNCHANGED db
       ELSE LET st == InviteLoop(a, roommates, now + INVITE_EXPIRY_DAYS,
                                 [party |-> agreement_party, tokens |-> invite_token,
                                  next |-> next_token])
            IN /\ st.next <= max_tokens + 1
               /\ Len(st.party) <= MaxParties
               /\ agreement_party' = st.party
               /\ invite_token' = st.tokens
               /\ next_token' = st.next
               /\ agreement' = [agreement EXCEPT ![a].status = "inviting"]
               /\ UNCHANGED <<payment, signature_envelope>>
    /\ UNCHANGED env

invite_roommates(a, u, roommates) == invite_upto(a, u, roommates, MaxTokens)

\* the same handler where a revoked invite may be issued once more
invite_again(a, u, roommates) == invite_upto(a, u, roommates, MaxTokens + 1)

\* ------------------------------ POST /agreements/{id}/docusign/envelope
Unjoined(a) == {i \in PartiesOf(a) : agreement_party[i].user_id = NULL}
Unsigned(a) == {i \in PartiesOf(a) : ~agreement_party[i].signed}

\* envelope_outcome without the check that every party has joined
envelope_outcome_unjoined(a, u) ==
    IF ~require_verified_user(u) THEN Resp(403, "not_verified", 0)
    ELSE IF ~OwnAgreement(a, u) THEN Resp(404, "not_found", 0)
    ELSE IF agreement[a].status \notin {"inviting", "signing"} THEN Resp(400, "not_ready", 0)
    ELSE Ok

envelope_outcome(a, u) ==
    IF ~require_verified_user(u) THEN Resp(403, "not_verified", 0)
    ELSE IF ~OwnAgreement(a, u) THEN Resp(404, "not_found", 0)
    ELSE IF agreement[a].status \notin {"inviting", "signing"} THEN Resp(400, "not_ready", 0)
    ELSE IF Unjoined(a) # {} THEN Resp(400, "waiting_join", Cardinality(Unjoined(a)))
    ELSE Ok

create_docusign_envelope(a, u) ==
    /\ IF envelope_outcome(a, u) # Ok
       THEN UNCHANGED db
       ELSE /\ agreement' = [agreement EXCEPT ![a].status = "signing"]
            /\ UNCHANGED <<agreement_party, invite_token, next_token, payment, signature_envelope>>
    /\ UNCHANGED env

\* ------------------------------------- POST /agreements/{id}/complete
\* complete_outcome without the check that every party has signed
complete_outcome_unchecked(a, u) ==
    IF ~OwnAgreement(a, u) THEN Resp(404, "not_found", 0)
    ELSE Ok

\* complete_outcome reporting the number of parties instead of the unsigned ones
complete_outcome_miscounted(a, u) ==
    IF ~OwnAgreement(a, u) THEN Resp(404, "not_found", 0)
    ELSE IF Unsigned(a) # {}
    THEN Resp(400, "waiting_signatures", Cardinality(PartiesOf(a)))
    ELSE Ok

\* complete_outcome refusing an agreement that is already completed
complete_outcome_once(a, u) ==
    IF ~OwnAgreement(a, u) THEN Resp(404, "not_found", 0)
    ELSE IF Unsigned(a) # {} THEN Resp(400, "waiting_signatures", Cardinality(Unsigned(a)))
    ELSE IF agreement[a].status = "completed" THEN Resp(400, "already_completed", 0)
    ELSE Ok

complete_outcome(a, u) ==
    IF ~OwnAgreement(a, u) THEN Resp(404, "not_found", 0)
    ELSE IF Unsigned(a) # {} THEN Resp(400, "waiting_signatures", Cardinality(Unsigned(a)))
    ELSE Ok

complete_agreement(a, u) ==
    /\ IF complete_outcome(a, u) # Ok
       THEN UNCHANGED db
       ELSE /\ agreement' = [agreement EXCEPT ![a].status = "completed"]
            /\ UNCHANGED <<agreement_party, invite_token, next_token, payment, signature_envelope>>
    /\ UNCHANGED env

\* ------------------------------------------ POST /invites/accept/{token}
\* token values a client may present: every value ever generated and one more
TokenValues == 1..(MaxTokens + 1)

\* db.query(InviteToken).filter(InviteToken.token == token).first()
InviteByToken(v) == {t \in invite_token : t.token = v}

\* the party rows first() may return for (agreement, email)
PartyMatches(a, email) ==
    {i \in PartiesOf(a) : agreement_party[i].email = email}

\* accept_outcome without the check that the invite is unused
accept_outcome_reusable(v, u, i) ==
    IF InviteByToken(v) = {} THEN Resp(404, "invalid_token", 0)
    ELSE LET invite == CHOOSE t \in InviteByToken(v) : TRUE
         IN IF invite.expires_at < now THEN Resp(400, "expired", 0)
            ELSE IF Lower(invite.email) # Lower(UserEmail[u])
            THEN Resp(400, "email_mismatch", 0)
            ELSE IF ~Exists(invite.agreement_id) THEN Resp(404, "not_found", 0)
            ELSE IF /\ i # 0
                    /\ agreement_party[i].requires_id_verification
                    /\ ~agreement_party[i].id_verified
                    /\ ~demo_mode
                    /\ ~app_user[u].is_verified
            THEN Resp(403, "verification_required", 0)
            ELSE Ok

\* accept_outcome without the identity verification gate
accept_outcome_ungated(v, u, i) ==
    IF InviteByToken(v) = {} THEN Resp(404, "invalid_token", 0)
    ELSE LET invite == CHOOSE t \in InviteByToken(v) : TRUE
         IN IF invite.is_used THEN Resp(400, "already_used", 0)
            ELSE IF invite.expires_at < now THEN Resp(400, "expired", 0)
            ELSE IF Lower(invite.email) # Lower(UserEmail[u])
            THEN Resp(400, "email_mismatch", 0)
            ELSE IF ~Exists(invite.agreement_id) THEN Resp(404, "not_found", 0)
            ELSE Ok

\* accept_outcome refusing the invite already on the day it expires
accept_outcome_early(v, u, i) ==
    IF InviteByToken(v) = {} THEN Resp(404, "invalid_token", 0)
    ELSE LET invite == CHOOSE t \in InviteByToken(v) : TRUE
         IN IF invite.is_used THEN Resp(400, "already_used", 0)
            ELSE IF invite.expires_at <= now THEN Resp(400, "expired", 0)
            ELSE IF Lower(invite.email) # Lower(UserEmail[u])
            THEN Resp(400, "email_mismatch", 0)
            ELSE IF ~Exists(invite.agreement_id) THEN Resp(404, "not_found", 0)
            ELSE IF /\ i # 0
                    /\ agreement_party[i].requires_id_verification
                    /\ ~agreement_party[i].id_verified
                    /\ ~demo_mode
                    /\ ~app_user[u].is_verified
            THEN Resp(403, "verification_required", 0)
            ELSE Ok

\* the outcome when first() returns party row i (0: no such row)
accept_outcome(v, u, i) ==
    IF InviteByToken(v) = {} THEN Resp(404, "invalid_token", 0)
    ELSE LET invite == CHOOSE t \in InviteByToken(v) : TRUE
         IN IF invite.is_used THEN Resp(400, "already_used", 0)
            ELSE IF invite.expires_at < now THEN Resp(400, "expired", 0)
            ELSE IF Lower(invite.email) # Lower(UserEmail[u])
            THEN Resp(400, "email_mismatch", 0)
            ELSE IF ~Exists(invite.agreement_id) THEN Resp(404, "not_found", 0)
            ELSE IF /\ i # 0
                    /\ agreement_party[i].requires_id_verification
                    /\ ~agreement_party[i].id_verified
                    /\ ~demo_mode
                    /\ ~app_user[u].is_verified
            THEN Resp(403, "verification_required", 0)
            ELSE Ok

\* LinkedParties leaving the matched party row without its user
LinkedParties_unlinked(a, u, i) ==
    IF i = 0
    THEN Append(agreement_party, NewParty(a, u, "roommate", UserEmail[u]))
    ELSE [agreement_party EXCEPT
            ![i].id_verified = IF agreement_party[i].requires_id_verification
                                  /\ ~agreement_party[i].id_verified
                               THEN TRUE ELSE @]

\* linking user u to party row i (or to a new row when i = 0)
LinkedParties(a, u, i) ==
    IF i = 0
    THEN Append(agreement_party, NewParty(a, u, "roommate", UserEmail[u]))
    ELSE [agreement_party EXCEPT
            ![i].id_verified = IF agreement_party[i].requires_id_verification
                                  /\ ~agreement_party[i].id_verified
                               THEN TRUE ELSE @,
            ![i].user_id = u]

accept_invite(v, u) ==
    /\ IF InviteByToken(v) = {}
       THEN UNCHANGED db
       ELSE LET invite == CHOOSE t \in InviteByToken(v) : TRUE
                a == invite.agreement_id
            IN \E i \in (IF PartyMatches(a, invite.email) = {} THEN {0}
                         ELSE PartyMatches(a, invite.email)) :
                  IF accept_outcome(v, u, i) # Ok
                  THEN UNCHANGED db
                  ELSE /\ Len(LinkedParties(a, u, i)) <= MaxParties
                       /\ agreement_party' = LinkedParties(a, u, i)
                       /\ invite_token' = (invite_token \ {invite}) \cup
                              {[invite EXCEPT !.is_used = TRUE, !.used_by_user_id = u]}
                       /\ UNCHANGED <<agreement, next_token, payment, signature_envelope>>
    /\ UNCHANGED env

\* ------------------------------------------------ DELETE /invites/{token}
revoke_outcome(v, u) ==
    IF InviteByToken(v) = {} THEN Resp(404, "not_found", 0)
    ELSE LET invite == CHOOSE t \in InviteByToken(v) : TRUE
         IN IF ~Exists(invite.agreement_id)
               \/ agreement[invite.agreement_id].initiator_id # u
            THEN Resp(403, "not_initiator", 0)
            ELSE Ok

\* revoke_invite deleting the invited placeholder parties as well
revoke_invite_party(v, u) ==
    /\ IF revoke_outcome(v, u) # Ok
       THEN UNCHANGED db
       ELSE /\ invite_token' = invite_token \ InviteByToken(v)
            /\ agreement_party' = SelectSeq(agreement_party, LAMBDA p : p.user_id # NULL)
            /\ UNCHANGED <<agreement, next_token, payment, signature_envelope>>
    /\ UNCHANGED env

revoke_invite(v, u) ==
    /\ IF revoke_outcome(v, u) # Ok
       THEN UNCHANGED db
       ELSE /\ invite_token' = invite_token \ InviteByToken(v)
            /\ UNCHANGED <<agreement, agreement_party, next_token, payment,
                           signature_envelope>>
    /\ UNCHANGED env

\* ------------------------------------------------- POST /webhooks/stripe
\* the requests Stripe may send: a checkout session completed (with or without
\* the agreement_id metadata), a payment intent failed, another event type;
\* sig_ok = FALSE is a request whose Stripe-Signature is missing or invalid
StripeRequests ==
    [sig_ok : {TRUE}, type : {"checkout.session.completed"}, id : StripeSessionIds,
     has_meta : BOOLEAN]
    \cup [sig_ok : {TRUE}, type : {"payment_intent.payment_failed"}, id : StripeIntentIds,
          has_meta : {FALSE}]
    \cup [sig_ok : BOOLEAN, type : {"charge.refunded"}, id : {<<"cs", 1>>}, has_meta : {FALSE}]

\* db.query(Payment).filter(Payment.provider_ref == ref).first()
PaymentByRef(pays, ref) == {i \in Indices(pays) : pays[i].provider_ref = ref}

\* StripeEvent advancing every agreement that awaits payment when the
\* session completed matches no Payment row
StripeEvent_unmatched(pays, agr, type, id, has_meta) ==
    LET m == PaymentByRef(pays, id)
        i == CHOOSE x \in m : TRUE
        a == pays[i].agreement_id
    IN IF type = "checkout.session.completed" /\ has_meta /\ m # {}
       THEN [payment   |-> [pays EXCEPT ![i].status = "succeeded"],
             agreement |-> IF agr[a].status = "awaiting_payment"
                           THEN [agr EXCEPT ![a].status = "inviting"] ELSE agr]
       ELSE IF type = "checkout.session.completed" /\ has_meta
       THEN [payment   |-> pays,
             agreement |-> [x \in DOMAIN agr |->
                              IF agr[x].status = "awaiting_payment"
                              THEN [agr[x] EXCEPT !.status = "inviting"] ELSE agr[x]]]
       ELSE IF type = "payment_intent.payment_failed" /\ m # {}
       THEN [payment |-> [pays EXCEPT ![i].status = "failed"], agreement |-> agr]
       ELSE [payment |-> pays, agreement |-> agr]

\* the rows after the handler's commit, as [payment, agreement]
StripeEvent(pays, agr, type, id, has_meta) ==
    LET m == PaymentByRef(pays, id)
        i == CHOOSE x \in m : TRUE
        a == pays[i].agreement_id
    IN IF type = "checkout.session.completed" /\ has_meta /\ m # {}
       THEN [payment   |-> [pays EXCEPT ![i].status = "succeeded"],
             agreement |-> IF agr[a].status = "awaiting_payment"
                           THEN [agr EXCEPT ![a].status = "inviting"] ELSE agr]
       ELSE IF type = "payment_intent.payment_failed" /\ m # {}
       THEN [payment |-> [pays EXCEPT ![i].status = "failed"], agreement |-> agr]
       ELSE [payment |-> pays, agreement |-> agr]

\* 400 for a missing or invalid Stripe-Signature, {"received": True} otherwise
stripe_outcome(sig_ok) ==
    IF ~sig_ok THEN Resp(400, "invalid_signature", 0) ELSE Ok

stripe_webhook(sig_ok, type, id, has_meta) ==
    /\ IF stripe_outcome(sig_ok) # Ok
       THEN UNCHANGED db
       ELSE /\ payment' = StripeEvent(payment, agreement, type, id, has_meta).payment
            /\ agreement' = StripeEvent(payment, agreement, type, id, has_meta).agreement
            /\ UNCHANGED <<agreement_party, invite_token, next_token, signature_envelope>>
    /\ UNCHANGED env

\* ----------------------------------------------- POST /webhooks/coinbase
\* CoinbaseEvent advancing the agreement on every confirmation, whatever its status
CoinbaseEvent_unguarded(pays, agr, type, id) ==
    LET m == PaymentByRef(pays, id)
        i == CHOOSE x \in m : TRUE
        a == pays[i].agreement_id
    IN IF m = {} THEN [payment |-> pays, agreement |-> agr]
       ELSE IF type = "charge:confirmed"
       THEN [payment   |-> [pays EXCEPT ![i].status = "succeeded"],
             agreement |-> [agr EXCEPT ![a].status = "inviting"]]
       ELSE IF type = "charge:failed"
       THEN [payment |-> [pays EXCEPT ![i].status = "failed"], agreement |-> agr]
       ELSE IF type = "charge:pending"
       THEN [payment |-> [pays EXCEPT ![i].status = "pending"], agreement |-> agr]
       ELSE [payment |-> pays, agreement |-> agr]

CoinbaseEvent(pays, agr, type, id) ==
    LET m == PaymentByRef(pays, id)
        i == CHOOSE x \in m : TRUE
        a == pays[i].agreement_id
    IN IF m = {} THEN [payment |-> pays, agreement |-> agr]
       ELSE IF type = "charge:confirmed"
       THEN [payment   |-> [pays EXCEPT ![i].status = "succeeded"],
             agreement |-> IF agr[a].status = "awaiting_payment"
                           THEN [agr EXCEPT ![a].status = "inviting"] ELSE agr]
       ELSE IF type = "charge:failed"
       THEN [payment |-> [pays EXCEPT ![i].status = "failed"], agreement |-> agr]
       ELSE IF type = "charge:pending"
       THEN [payment |-> [pays EXCEPT ![i].status = "pending"], agreement |-> agr]
       ELSE [payment |-> pays, agreement |-> agr]

\* the requests Coinbase Commerce may send
CoinbaseRequests ==
    [sig_ok : {TRUE}, type : CoinbaseEvents, id : CoinbaseChargeIds]
    \cup [sig_ok : {FALSE}, type : {"charge:confirmed"}, id : {<<"ch", 1>>}]

\* 400 for a missing or invalid X-CC-Webhook-Signature, {"received": True} otherwise
coinbase_outcome(sig_ok) ==
    IF ~sig_ok THEN Resp(400, "invalid_signature", 0) ELSE Ok

coinbase_webhook(sig_ok, type, id) ==
    /\ IF coinbase_outcome(sig_ok) # Ok
       THEN UNCHANGED db
       ELSE /\ payment' = CoinbaseEvent(payment, agreement, type, id).payment
            /\ agreement' = CoinbaseEvent(payment, agreement, type, id).agreement
            /\ UNCHANGED <<agreement_party, invite_token, next_token, signature_envelope>>
    /\ UNCHANGED env

\* ----------------------------------------------- POST /webhooks/docusign
EnvelopeIds == {<<"env", n>> : n \in 1..(MaxEnvelopes + 1)}

EnvelopeById(id) ==
    {i \in Indices(signature_envelope) : signature_envelope[i].docusign_envelope_id = id}

\* MarkAllSigned signing only the parties that are not the initiator's
MarkAllSigned_roommates(a) ==
    [i \in Indices(agreement_party) |->
        IF /\ agreement_party[i].agreement_id = a
           /\ ~agreement_party[i].signed
           /\ agreement_party[i].role # "initiator"
        THEN [agreement_party[i] EXCEPT !.signed = TRUE, !.signed_at = <<now>>]
        ELSE agreement_party[i]]

\* MarkAllSigned stamping every party of the agreement, signed before or not
MarkAllSigned_restamped(a) ==
    [i \in Indices(agreement_party) |->
        IF agreement_party[i].agreement_id = a
        THEN [agreement_party[i] EXCEPT !.signed = TRUE, !.signed_at = <<now>>]
        ELSE agreement_party[i]]

\* "for party in agreement.parties: if not party.signed: ..."
MarkAllSigned(a) ==
    [i \in Indices(agreement_party) |->
        IF agreement_party[i].agreement_id = a /\ ~agreement_party[i].signed
        THEN [agreement_party[i] EXCEPT !.signed = TRUE, !.signed_at = <<now>>]
        ELSE agreement_party[i]]

\* the handler verifies nothing and raises nothing once the JSON body is read
docusign_outcome(id, envelope_status) == Ok

docusign_webhook(id, envelope_status) ==
    /\ IF EnvelopeById(id) = {}
       THEN UNCHANGED db
       ELSE LET i == CHOOSE x \in EnvelopeById(id) : TRUE
                a == signature_envelope[i].agreement_id
            IN /\ signature_envelope' =
                      [signature_envelope EXCEPT ![i].status = envelope_status]
               /\ IF envelope_status = "completed" /\ Exists(a)
                  THEN /\ agreement' = [agreement EXCEPT ![a].status = "completed"]
                       /\ agreement_party' = MarkAllSigned(a)
                  ELSE IF envelope_status = "voided" /\ Exists(a)
                  THEN /\ agreement' = [agreement EXCEPT ![a].status = "void"]
                       /\ UNCHANGED agreement_party
                  ELSE UNCHANGED <<agreement, agreement_party>>
               /\ UNCHANGED <<invite_token, next_token, payment>>
    /\ UNCHANGED env

\* ------------------------------------------ Signature Tracker (spec 4.4)
\* No handler of the service inserts a SignatureEnvelope row (the TODO in
\* create_docusign_envelope); the row the DocuSign webhook looks up is
\* recorded as the design describes: for an agreement that entered signing,
\* unless it already has an envelope with status sent.
createEnvelope(a) ==
    /\ Exists(a)
    /\ agreement[a].status = "signing"
    /\ \A i \in EnvelopesOf(a) : signature_envelope[i].status # "sent"
    /\ Len(signature_envelope) < MaxEnvelopes
    /\ signature_envelope' = Append(signature_envelope,
           [agreement_id |-> a,
            docusign_envelope_id |-> <<"env", Len(signature_envelope) + 1>>,
            status |-> "sent"])
    /\ UNCHANGED <<agreement, agreement_party, invite_token, next_token, payment>>
    /\ UNCHANGED env

Next ==
    \/ Tick
    \/ \E a \in AgreementIds, u \in Users, ps \in CreateBodies : create_agreement(a, u, ps)
    \/ \E a \in AgreementIds, u \in Users : finalize_draft(a, u)
    \/ \E a \in AgreementIds, u \in Users, o \in CheckoutOutcomes :
           initiate_payment(a, u, o[1], o[2])
    \/ \E a \in AgreementIds, u \in Users, rs \in InviteBodies : invite_roommates(a, u, rs)
    \/ \E a \in AgreementIds, u \in Users : create_docusign_envelope(a, u)
    \/ \E a \in AgreementIds, u \in Users : complete_agreement(a, u)
    \/ \E v \in TokenValues, u \in Users : accept_invite(v, u)
    \/ \E v \in TokenValues, u \in Users : revoke_invite(v, u)
    \/ \E r \in StripeRequests : stripe_webhook(r.sig_ok, r.type, r.id, r.has_meta)
    \/ \E r \in CoinbaseRequests : coinbase_webhook(r.sig_ok, r.type, r.id)
    \/ \E id \in EnvelopeIds, es \in EnvelopeEvents : docusign_webhook(id, es)
    \/ \E a \in AgreementIds : createEnvelope(a)

Spec == Init /\ [][Next]_vars

\* ------------------------------------------------ invites, day by day
\* The invite handlers under a clock that moves one day at a time, started in
\* the state Spec reaches by create, finalize, pay (card), Stripe
\* checkout.session.completed and an invite of b@x.com on day 0.
InitInvited ==
    /\ app_user = [u \in Users |-> [is_verified |-> (u = "u1")]]
    /\ demo_mode = FALSE
    /\ agreement = [a \in AgreementIds |-> [status |-> "inviting", initiator_id |-> "u1", title |-> "t1", terms |-> "terms"]]
    /\ agreement_party = <<NewParty("a1", "u1", "initiator", UserEmail["u1"]),
                           NewParty("a1", NULL, "roommate", "b@x.com")>>
    /\ invite_token = {NewInviteToken("a1", "b@x.com", 1, INVITE_EXPIRY_DAYS)}
    /\ next_token = 2
    /\ payment = <<[NewPayment("a1", "card", <<"cs", 1>>) EXCEPT !.status = "succeeded"]>>
    /\ signature_envelope = <<>>
    /\ now = 0
    /\ session = [p \in Sessions |-> NoRequest]
    /\ id_verification = <<>>

TickDay ==
    /\ now < MaxClock
    /\ now' = now + 1
    /\ UNCHANGED <<app_user, demo_mode, session, id_verification, db>>

NextInvites ==
    \/ TickDay
    \/ \E a \in AgreementIds, u \in Users, rs \in InviteBodies : invite_again(a, u, rs)
    \/ \E v \in TokenValues, u \in Users : accept_invite(v, u)
    \/ \E v \in TokenValues, u \in Users : revoke_invite(v, u)

SpecInvites == InitInvited /\ [][NextInvites]_vars

\* ------------------------------------- invites that ask for verification
\* requires_id_verification is a column no handler assigns; the invited
\* party's row starts here with either value, the invited user verified or
\* not, the deployment in demo mode or not.
InitVerify ==
    /\ \E v \in BOOLEAN :
           app_user = [u \in Users |-> [is_verified |-> (u = "u1" \/ v)]]
    /\ demo_mode \in BOOLEAN
    /\ agreement = [a \in AgreementIds |->
                       [status |-> "inviting", initiator_id |-> "u1", title |-> "t1",
                        terms |-> "terms"]]
    /\ \E r \in BOOLEAN :
           agreement_party =
               <<NewParty("a1", "u1", "initiator", UserEmail["u1"]),
                 [NewParty("a1", NULL, "roommate", "b@x.com")
                     EXCEPT !.requires_id_verification = r]>>
    /\ invite_token = {NewInviteToken("a1", "b@x.com", 1, INVITE_EXPIRY_DAYS)}
    /\ next_token = 2
    /\ payment = <<[NewPayment("a1", "card", <<"cs", 1>>) EXCEPT !.status = "succeeded"]>>
    /\ signature_envelope = <<>>
    /\ now = 0
    /\ session = [p \in Sessions |-> NoRequest]
    /\ id_verification = <<>>

SpecVerify == InitVerify /\ [][NextInvites]_vars

\* -------------------------------------------- the initiator's requests
\* The requests only the initiator may make, with the ones that lead to the
\* states they are made in, for two users of whom the second may have passed
\* identity verification as well, with demo mode on or off.
InitEdit ==
    /\ \E v \in BOOLEAN :
           app_user = [u \in Users |-> [is_verified |-> (u = "u1" \/ v)]]
    /\ demo_mode \in BOOLEAN
    /\ agreement = [a \in AgreementIds |->
                       [status |-> "absent", initiator_id |-> NULL, title |-> NULL,
                        terms |-> NULL]]
    /\ agreement_party = <<>>
    /\ invite_token = {}
    /\ next_token = 1
    /\ payment = <<>>
    /\ signature_envelope = <<>>
    /\ now = 0
    /\ session = [p \in Sessions |-> NoRequest]
    /\ id_verification = <<>>

NextEdit ==
    \/ \E a \in AgreementIds, u \in Users, ps \in CreateBodies : create_any(a, u, ps)
    \/ \E a \in AgreementIds, u \in Users, body \in UpdateBodies : update_agreement(a, u, body)
    \/ \E a \in AgreementIds, u \in Users : finalize_draft(a, u)
    \/ \E a \in AgreementIds, u \in Users, o \in CheckoutOutcomesAll :
           initiate_payment(a, u, o[1], o[2])
    \/ \E r \in StripeRequests : stripe_webhook(r.sig_ok, r.type, r.id, r.has_meta)
    \/ \E a \in AgreementIds, u \in Users, rs \in InviteBodies : invite_roommates(a, u, rs)
    \/ \E v \in TokenValues, u \in Users : accept_invite(v, u)
    \/ \E a \in AgreementIds, u \in Users : create_docusign_envelope(a, u)
    \/ \E v \in TokenValues, u \in Users : revoke_invite(v, u)

SpecEdit == InitEdit /\ [][NextEdit]_vars

\* ------------------------------------------------ identity verification
KycProviders == {"idme", "persona"}
\* the ids the providers give their verifications and inquiries
InquiryIds == {"inq1", "inq2"}
\* the mapped status process_webhook returns
KycStatuses == {"pending", "approved", "rejected"}
\* status_str of POST /users/verify/persona/complete
CompleteStatuses == {"completed", "approved", "failed"}

InitKyc ==
    /\ app_user = [u \in Users |-> [is_verified |-> FALSE]]
    /\ demo_mode = FALSE
    /\ agreement = [a \in AgreementIds |->
                       [status |-> "absent", initiator_id |-> NULL, title |-> NULL,
                        terms |-> NULL]]
    /\ agreement_party = <<>>
    /\ invite_token = {}
    /\ next_token = 1
    /\ payment = <<>>
    /\ signature_envelope = <<>>
    /\ now = 0
    /\ session = [p \in Sessions |-> NoRequest]
    /\ id_verification = <<>>

NewVerification(u, provider, reference_id) ==
    [user_id |-> u, provider |-> provider, status |-> "pending", reference_id |-> reference_id]

PendingOf(u) ==
    {i \in Indices(id_verification) :
        id_verification[i].user_id = u /\ id_verification[i].status = "pending"}

PendingPersonaOf(u) ==
    {i \in PendingOf(u) : id_verification[i].provider = "persona"}

\* POST /users/verify
start_verification(u, provider, reference_id) ==
    /\ IF app_user[u].is_verified \/ PendingOf(u) # {}
       THEN UNCHANGED id_verification
       ELSE /\ Len(id_verification) < MaxVerifications
            /\ id_verification' = Append(id_verification,
                                         NewVerification(u, provider, reference_id))
    /\ UNCHANGED <<app_user, demo_mode, now, session, db>>

\* POST /users/verify/persona/inquiry; the inquiry id is None when the SDK
\* creates the inquiry
create_persona_inquiry(u, reference_id) ==
    /\ IF app_user[u].is_verified \/ PendingOf(u) # {}
       THEN UNCHANGED id_verification
       ELSE /\ Len(id_verification) < MaxVerifications
            /\ id_verification' = Append(id_verification,
                                         NewVerification(u, "persona", reference_id))
    /\ UNCHANGED <<app_user, demo_mode, now, session, db>>

\* whether complete_persona_verification approves for this status_str
CompleteApproves(status_str) == status_str \in {"approved", "completed"}

\* POST /users/verify/persona/complete
complete_persona_verification(u, inquiry_id, status_str) ==
    /\ IF PendingPersonaOf(u) = {}
       THEN UNCHANGED <<id_verification, app_user>>
       ELSE \E i \in PendingPersonaOf(u) :
                /\ id_verification' =
                       [id_verification EXCEPT
                           ![i].reference_id = inquiry_id,
                           ![i].status = IF CompleteApproves(status_str)
                                         THEN "approved" ELSE @]
                /\ app_user' = IF CompleteApproves(status_str)
                               THEN [app_user EXCEPT ![u].is_verified = TRUE]
                               ELSE app_user
    /\ UNCHANGED <<demo_mode, now, session, db>>

\* the verification record the webhook updates
KycMatches(provider, verification_id, reference_id) ==
    LET by_ref == {i \in Indices(id_verification) :
                      /\ id_verification[i].reference_id = verification_id
                      /\ id_verification[i].provider = provider}
    IN IF provider = "persona"
       THEN IF \E u \in Users : u = reference_id /\ PendingPersonaOf(u) # {}
            THEN PendingPersonaOf(reference_id)
            ELSE IF verification_id # NULL THEN by_ref ELSE {}
       ELSE by_ref

\* whether the webhook verifies the user for this mapped status
KycVerifies_any(status) == TRUE

KycVerifies(status) == status = "approved"

\* POST /webhooks/kyc/{provider}; bad_signature: an X-Persona-Signature
\* header that does not verify
kyc_webhook(provider, bad_signature, verification_id, reference_id, status) ==
    /\ IF \/ provider = "persona" /\ bad_signature
          \/ KycMatches(provider, verification_id, reference_id) = {}
       THEN UNCHANGED <<id_verification, app_user>>
       ELSE \E i \in KycMatches(provider, verification_id, reference_id) :
                /\ id_verification' =
                       [id_verification EXCEPT
                           ![i].reference_id = IF provider = "persona" /\ verification_id # NULL
                                               THEN verification_id ELSE @,
                           ![i].status = status]
                /\ app_user' = IF KycVerifies(status)
                               THEN [app_user EXCEPT ![id_verification[i].user_id].is_verified = TRUE]
                               ELSE app_user
    /\ UNCHANGED <<demo_mode, now, session, db>>

\* the requests a provider may send: ID.me reads verification_id and status
\* only; Persona reads the inquiry id, the reference-id (our user id) and the
\* status, unless its signature header does not verify
KycRequests ==
    {[provider |-> "idme", bad_signature |-> FALSE, verification_id |-> v,
      reference_id |-> NULL, status |-> st] :
        v \in InquiryIds \cup {NULL}, st \in KycStatuses}
    \cup {[provider |-> "persona", bad_signature |-> FALSE, verification_id |-> v,
           reference_id |-> r, status |-> st] :
             v \in InquiryIds \cup {NULL}, r \in Users \cup {NULL}, st \in KycStatuses}
    \cup {[provider |-> "persona", bad_signature |-> TRUE, verification_id |-> NULL,
           reference_id |-> NULL, status |-> "approved"]}

NextKyc ==
    \/ \E u \in Users, p \in KycProviders, r \in InquiryIds : start_verification(u, p, r)
    \/ \E u \in Users, r \in InquiryIds \cup {NULL} : create_persona_inquiry(u, r)
    \/ \E u \in Users, r \in InquiryIds, st \in CompleteStatuses :
           complete_persona_verification(u, r, st)
    \/ \E q \in KycRequests :
           kyc_webhook(q.provider, q.bad_signature, q.verification_id, q.reference_id,
                       q.status)

SpecKyc == InitKyc /\ [][NextKyc]_vars

\* --------------------------------------------- two requests in flight
\* Each request runs in its own session and transaction: what it reads is the
\* committed state at its first query, what it adds or assigns stays in its
\* session until db.commit() sends it. No handler takes a lock, selects FOR
\* UPDATE or sets an isolation level, so a request is two steps here: the
\* reads, with the writes they lead to kept in session[p], and the commit.
\* The start is the state Spec reaches by create, finalize, pay (card) and
\* Stripe checkout.session.completed.
InitPaid ==
    /\ app_user = [u \in Users |-> [is_verified |-> (u = "u1")]]
    /\ demo_mode = FALSE
    /\ agreement = [a \in AgreementIds |-> [status |-> "paid", initiator_id |-> "u1", title |-> "t1", terms |-> "terms"]]
    /\ agreement_party = <<NewParty("a1", "u1", "initiator", UserEmail["u1"])>>
    /\ invite_token = {}
    /\ next_token = 1
    /\ payment = <<[NewPayment("a1", "card", <<"cs", 1>>) EXCEPT !.status = "succeeded"]>>
    /\ signature_envelope = <<>>
    /\ now = 0
    /\ session = [p \in Sessions |-> NoRequest]
    /\ id_verification = <<>>

\* invite_roommates up to, not including, db.commit()
invite_roommates_read(p, a, u, roommates) ==
    /\ session[p].op = "none"
    /\ invite_outcome(a, u) = Ok
    /\ LET st == InviteLoop(a, roommates, now + INVITE_EXPIRY_DAYS,
                            [party |-> agreement_party, tokens |-> invite_token,
                             next |-> next_token])
       IN session' = [session EXCEPT ![p] =
              [NoRequest EXCEPT
                  !.op = "invite",
                  !.a = a,
                  !.status = IF agreement[a].status = "inviting" THEN NULL ELSE "inviting",
                  !.parties = SubSeq(st.party, Len(agreement_party) + 1, Len(st.party)),
                  !.issued = [k \in 1..(st.next - next_token) |->
                                 (CHOOSE t \in st.tokens : t.token = next_token + k - 1).email],
                  !.reissued = {t.token : t \in invite_token \ st.tokens},
                  !.expires_at = now + INVITE_EXPIRY_DAYS]]
    /\ UNCHANGED <<app_user, demo_mode, now, id_verification, db>>

\* create_docusign_envelope up to, not including, db.commit()
create_docusign_envelope_read(p, a, u) ==
    /\ session[p].op = "none"
    /\ envelope_outcome(a, u) = Ok
    /\ session' = [session EXCEPT ![p] =
           [NoRequest EXCEPT
               !.op = "envelope",
               !.a = a,
               !.status = IF agreement[a].status = "signing" THEN NULL ELSE "signing"]]
    /\ UNCHANGED <<app_user, demo_mode, now, id_verification, db>>

\* accept_invite up to, not including, db.commit()
accept_invite_read(p, v, u) ==
    /\ session[p].op = "none"
    /\ InviteByToken(v) # {}
    /\ LET invite == CHOOSE t \in InviteByToken(v) : TRUE
           a == invite.agreement_id
       IN \E i \in (IF PartyMatches(a, invite.email) = {} THEN {0}
                    ELSE PartyMatches(a, invite.email)) :
              /\ accept_outcome(v, u, i) = Ok
              /\ session' = [session EXCEPT ![p] =
                     [NoRequest EXCEPT
                         !.op = "accept",
                         !.a = a,
                         !.parties = IF i = 0
                                     THEN <<NewParty(a, u, "roommate", UserEmail[u])>>
                                     ELSE <<>>,
                         !.link = IF i = 0 THEN <<>>
                                  ELSE <<i, u, LinkedParties(a, u, i)[i].id_verified>>,
                         !.use = <<v, u>>]]
    /\ UNCHANGED <<app_user, demo_mode, now, id_verification, db>>

\* db.commit(): the INSERTs and the UPDATEs of the assigned columns
session_commit(p) ==
    LET s == session[p]
        n == Len(s.issued)
        Stamped(t) ==
            IF t.token \in s.reissued THEN [t EXCEPT !.expires_at = s.expires_at]
            ELSE IF s.use # <<>> /\ t.token = s.use[1]
            THEN [t EXCEPT !.is_used = TRUE, !.used_by_user_id = s.use[2]]
            ELSE t
    IN /\ s.op # "none"
       /\ next_token + n <= MaxTokens + 2
       /\ Len(agreement_party) + Len(s.parties) <= MaxParties
       /\ agreement' = IF s.status = NULL THEN agreement
                       ELSE [agreement EXCEPT ![s.a].status = s.status]
       /\ agreement_party' =
              (IF s.link = <<>> THEN agreement_party
               ELSE [agreement_party EXCEPT ![s.link[1]].user_id = s.link[2],
                                            ![s.link[1]].id_verified = s.link[3]])
              \o s.parties
       /\ invite_token' = {Stamped(t) : t \in invite_token} \cup
              {NewInviteToken(s.a, s.issued[k], next_token + k - 1, s.expires_at) : k \in 1..n}
       /\ next_token' = next_token + n
       /\ session' = [session EXCEPT ![p] = NoRequest]
       /\ UNCHANGED <<app_user, demo_mode, now, id_verification, payment, signature_envelope>>

NextRace ==
    \/ \E p \in Sessions, a \in AgreementIds, u \in Users, rs \in InviteBodies :
           invite_roommates_read(p, a, u, rs)
    \/ \E p \in Sessions, a \in AgreementIds, u \in Users : create_docusign_envelope_read(p, a, u)
    \/ \E p \in Sessions, v \in TokenValues, u \in Users : accept_invite_read(p, v, u)
    \/ \E p \in Sessions : session_commit(p)

SpecRace == InitPaid /\ [][NextRace]_vars

\* ================================================================= claims
Ordered  == {StatusOrder[i] : i \in Indices(StatusOrder)}
Terminal == {"completed", "void"}

\* the child rows of agreement a
ChildrenOf(a) ==
    [parties   |-> SelectSeq(agreement_party, LAMBDA p : p.agreement_id = a),
     tokens    |-> TokensOf(a),
     payments  |-> SelectSeq(payment, LAMBDA p : p.agreement_id = a),
     envelopes |-> SelectSeq(signature_envelope, LAMBDA e : e.agreement_id = a)]

\* C1: across every step, a status in the order draft, awaiting_payment, paid,
\* inviting, signing, completed is never replaced by an earlier status of
\* that order.
C1_StatusNeverMovesBackward ==
    [][\A a \in AgreementIds :
          (agreement[a].status \in Ordered /\ agreement'[a].status \in Ordered)
              => Rank(agreement'[a].status) >= Rank(agreement[a].status)]_vars

\* C2: once an agreement's status is completed or void, no step changes it.
C2_TerminalStatusIsFinal ==
    [][\A a \in AgreementIds :
          agreement[a].status \in Terminal
              => agreement'[a].status = agreement[a].status]_vars

\* C3: once an agreement's status is completed or void, no step changes its
\* parties, invite tokens, payments or envelopes.
C3_TerminalChildrenFrozen ==
    [][\A a \in AgreementIds :
          agreement[a].status \in Terminal => ChildrenOf(a)' = ChildrenOf(a)]_vars

\* C4: a step that turns a pending payment of an agreement in awaiting_payment
\* into succeeded leaves that agreement in status paid, and a step that enters
\* status inviting is a step of the invite operation.
C4_SettleEntersPaid ==
    [][\A a \in AgreementIds :
          /\ (/\ agreement[a].status = "awaiting_payment"
              /\ \E i \in PaymentsOf(a) : /\ payment[i].status = "pending"
                                          /\ payment'[i].status = "succeeded")
                 => agreement'[a].status = "paid"
          /\ (agreement[a].status # "inviting" /\ agreement'[a].status = "inviting")
                 => \E u \in Users, rs \in InviteBodies : invite_roommates(a, u, rs)]_vars

\* the success event of the provider that issued id, applied to (pays, agr)
SettleSucceeded(pays, agr, id) ==
    IF id \in StripeSessionIds
    THEN StripeEvent(pays, agr, "checkout.session.completed", id, TRUE)
    ELSE CoinbaseEvent(pays, agr, "charge:confirmed", id)

ProviderRefs == StripeSessionIds \cup CoinbaseChargeIds

C5_RedeliveryIsNoOp ==
    \A id \in ProviderRefs :
        LET s0 == [payment |-> payment, agreement |-> agreement]
            s1 == SettleSucceeded(payment, agreement, id)
            s2 == SettleSucceeded(s1.payment, s1.agreement, id)
        IN /\ s2 = s1
           /\ (\E i \in PaymentByRef(payment, id) : payment[i].status = "succeeded")
                  => s1 = s0
           /\ \A id2 \in ProviderRefs :
                  LET s3 == SettleSucceeded(s1.payment, s1.agreement, id2)
                  IN (/\ PaymentByRef(payment, id) # {}
                      /\ PaymentByRef(payment, id2) # {})
                         => s3.agreement = s1.agreement

\* C5: in every reachable state the success webhook is idempotent (delivering
\* it twice gives the state of delivering it once; delivering it for a payment
\* that is already succeeded changes nothing; a success for a second payment
\* does not change the agreement again), and no step puts an agreement that
\* has left awaiting_payment back into it, so it leaves it at most once.
C5_SettleIdempotent ==
    /\ []C5_RedeliveryIsNoOp
    /\ [][\A a \in AgreementIds :
             agreement[a].status \in Statuses \ {"draft", "awaiting_payment"}
                 => agreement'[a].status # "awaiting_payment"]_vars

\* two payments of one agreement settled, the agreement advanced once
C5_Witness ==
    \E a \in AgreementIds :
        /\ agreement[a].status = "inviting"
        /\ Cardinality({i \in PaymentsOf(a) : payment[i].status = "succeeded"}) >= 2

\* C6: a payment whose status is succeeded or failed keeps that status in
\* every later step.
C6_SettledPaymentIsFinal ==
    [][\A i \in Indices(payment) :
          payment[i].status \in {"succeeded", "failed"}
              => payment'[i].status = payment[i].status]_vars

\* C7: an agreement whose status is paid, inviting, signing or completed has
\* a payment with status succeeded.
C7_ProgressImpliesSucceededPayment ==
    \A a \in AgreementIds :
        agreement[a].status \in {"paid", "inviting", "signing", "completed"}
            => HasSucceeded(a)

\* C8: every step of the invite operation that changes anything starts from
\* an agreement that is paid, inviting or has a succeeded payment, and ends
\* with the agreement in status inviting; so from any other state invite
\* issues no token, creates no party and changes no status.
C8_InviteRequiresPayment ==
    [][\/ UNCHANGED db
       \/ \A a \in AgreementIds :
             (\E u \in Users, rs \in InviteBodies : invite_roommates(a, u, rs))
                 => /\ agreement[a].status \in {"paid", "inviting"} \/ HasSucceeded(a)
                    /\ agreement'[a].status = "inviting"]_vars

\* an invite has succeeded: the agreement is inviting and holds an unused
\* token for a party that has not joined
C8_Witness ==
    \E a \in AgreementIds :
        /\ agreement[a].status = "inviting"
        /\ \E t \in TokensOf(a) : ~t.is_used
        /\ Unjoined(a) # {}

C9_EnvelopeOutcome ==
    \A a \in AgreementIds :
        LET u == agreement[a].initiator_id
        IN (Exists(a) /\ require_verified_user(u)) =>
            /\ (agreement[a].status \in {"inviting", "signing"} /\ Unjoined(a) # {})
                   => envelope_outcome(a, u)
                          = Resp(400, "waiting_join", Cardinality(Unjoined(a)))
            /\ (agreement[a].status \in {"inviting", "signing"} /\ Unjoined(a) = {})
                   => envelope_outcome(a, u) = Ok
            /\ agreement[a].status \notin {"inviting", "signing"}
                   => envelope_outcome(a, u).code = 400

\* C9: the initiator's create-envelope answers 400 with the number of unjoined
\* parties while a party of an inviting or signing agreement is unjoined,
\* succeeds when none is, and is refused in every other status; every step of
\* create-envelope that changes anything starts in inviting or signing with
\* no unjoined party and changes only the status, to signing.
C9_EnvelopeRequiresAllJoined ==
    /\ []C9_EnvelopeOutcome
    /\ [][\A a \in AgreementIds :
             (\E u \in Users : create_docusign_envelope(a, u))
                 => /\ agreement[a].status \in {"inviting", "signing"}
                    /\ Unjoined(a) = {}
                    /\ agreement'[a].status = "signing"
                    /\ ChildrenOf(a)' = ChildrenOf(a)]_vars

\* the invited roommate has joined with their token and the agreement
\* entered signing
C9_Witness ==
    \E a \in AgreementIds :
        /\ agreement[a].status = "signing"
        /\ Cardinality(PartiesOf(a)) >= 2
        /\ Unjoined(a) = {}
        /\ \E t \in TokensOf(a) : t.is_used

C11_CompletedOnlyFromSigning ==
    [][\A a \in AgreementIds :
          (agreement[a].status # "completed" /\ agreement'[a].status = "completed")
              => agreement[a].status = "signing"]_vars

\* C12: in every reachable state, an agreement whose status is completed has
\* no unsigned party.
C12_CompletedImpliesAllSigned ==
    \A a \in AgreementIds : agreement[a].status = "completed" => Unsigned(a) = {}

\* a completed agreement whose parties were signed by two different
\* completions: one before the roommate was invited, one after they joined
C12_Witness ==
    \E a \in AgreementIds :
        /\ agreement[a].status = "completed"
        /\ Unsigned(a) = {}
        /\ \E i \in PartiesOf(a), j \in PartiesOf(a) :
               agreement_party[i].signed_at # agreement_party[j].signed_at

C13_CompleteOutcome ==
    \A a \in AgreementIds :
        Exists(a) =>
            LET u == agreement[a].initiator_id
            IN IF Unsigned(a) # {}
               THEN complete_outcome(a, u)
                        = Resp(400, "waiting_signatures", Cardinality(Unsigned(a)))
               ELSE complete_outcome(a, u) = Ok

\* C13: the initiator's manual complete answers 400 with the number of
\* unsigned parties while a party is unsigned and succeeds when none is; a
\* step of manual complete taken while a party is unsigned changes nothing,
\* and one that changes anything sets only the status, to completed.
C13_CompleteRequiresAllSigned ==
    /\ []C13_CompleteOutcome
    /\ [][\/ UNCHANGED db
          \/ \A a \in AgreementIds :
                (\E u \in Users : complete_agreement(a, u))
                    => /\ Unsigned(a) = {}
                       /\ agreement'[a].status = "completed"
                       /\ ChildrenOf(a)' = ChildrenOf(a)]_vars

\* manual complete has acted: the agreement is completed although its only
\* envelope is voided, which the webhook path never leaves behind
C13_Witness ==
    \E a \in AgreementIds :
        /\ agreement[a].status = "completed"
        /\ Unsigned(a) = {}
        /\ EnvelopesOf(a) # {}
        /\ \A i \in EnvelopesOf(a) : signature_envelope[i].status = "voided"

\* the envelopes of agreement a whose status is completed
CompletedEnvelopes(a) ==
    {i \in EnvelopesOf(a) : signature_envelope[i].status = "completed"}

\* the parties of a that are signed keep signed and signed_at in the step
SignedUntouched(a) ==
    \A j \in PartiesOf(a) :
        agreement_party[j].signed
            => /\ agreement_party'[j].signed
               /\ agreement_party'[j].signed_at = agreement_party[j].signed_at

C14_RedundantCompleteOk ==
    \A a \in AgreementIds :
        (Exists(a) /\ Unsigned(a) = {})
            => complete_outcome(a, agreement[a].initiator_id) = Ok

C15_Delivered(id, es) ==
    /\ EnvelopeById(id) # {}
    /\ \A i \in EnvelopeById(id) :
          LET a == signature_envelope[i].agreement_id
          IN /\ signature_envelope[i].status = es
             /\ es = "completed" => (agreement[a].status = "completed" /\ Unsigned(a) = {})
             /\ es = "voided" => agreement[a].status = "void"

\* C15: a delivery of (envelope id, status) that changes anything is made for
\* a known envelope, outside the state C15_Delivered describes, and ends in
\* it; so a delivery made in such a state changes nothing, and the second
\* delivery of the same event leaves the agreement status, the envelope
\* status and every party's signed and signed_at as the first left them.  In
\* every step of every operation a signed party stays signed and keeps its
\* signed_at.
C15_EnvelopeUpdateIdempotent ==
    [][\/ UNCHANGED db
       \/ /\ \A j \in Indices(agreement_party) :
                agreement_party[j].signed
                    => /\ agreement_party'[j].signed
                       /\ agreement_party'[j].signed_at = agreement_party[j].signed_at
          /\ \A id \in EnvelopeIds, es \in EnvelopeEvents :
                docusign_webhook(id, es)
                    => /\ EnvelopeById(id) # {}
                       /\ ~C15_Delivered(id, es)
                       /\ C15_Delivered(id, es)']_vars

\* the completed event was delivered on day 0 and again after the clock
\* moved and a roommate joined: the first party still carries day 0
C15_Witness ==
    \E a \in AgreementIds :
        /\ CompletedEnvelopes(a) # {}
        /\ now > 0
        /\ \E i \in PartiesOf(a) : agreement_party[i].signed_at = <<0>>
        /\ \E j \in PartiesOf(a) : agreement_party[j].signed_at = <<now>>

\* provider references and envelope ids that match no row
UnknownRefs        == {id \in ProviderRefs \cup StripeIntentIds : PaymentByRef(payment, id) = {}}
UnknownEnvelopeIds == {id \in EnvelopeIds : EnvelopeById(id) = {}}

C16_UnknownRefAccepted ==
    /\ \A r \in StripeRequests :
          (r.sig_ok /\ PaymentByRef(payment, r.id) = {})
              => /\ stripe_outcome(r.sig_ok) = Ok
                 /\ StripeEvent(payment, agreement, r.type, r.id, r.has_meta)
                        = [payment |-> payment, agreement |-> agreement]
    /\ \A r \in CoinbaseRequests :
          (r.sig_ok /\ PaymentByRef(payment, r.id) = {})
              => /\ coinbase_outcome(r.sig_ok) = Ok
                 /\ CoinbaseEvent(payment, agreement, r.type, r.id)
                        = [payment |-> payment, agreement |-> agreement]
    /\ \A id \in UnknownEnvelopeIds, es \in EnvelopeEvents : docusign_outcome(id, es) = Ok

\* C16: a signed payment webhook whose reference matches no Payment row, and
\* an envelope webhook whose id matches no SignatureEnvelope row, is answered
\* without an error, and the step it takes changes no agreement, payment,
\* party, token or envelope: no step that changes the database is a step of
\* such a webhook.
C16_UnknownRefIsNoOp ==
    /\ []C16_UnknownRefAccepted
    /\ [][\/ UNCHANGED db
          \/ /\ UNCHANGED <<agreement_party, invite_token, next_token, signature_envelope>>
                   => /\ \A r \in StripeRequests :
                            (r.sig_ok /\ PaymentByRef(payment, r.id) = {})
                                => ~stripe_webhook(r.sig_ok, r.type, r.id, r.has_meta)
                      /\ \A r \in CoinbaseRequests :
                            (r.sig_ok /\ PaymentByRef(payment, r.id) = {})
                                => ~coinbase_webhook(r.sig_ok, r.type, r.id)
             /\ UNCHANGED <<invite_token, next_token, payment>>
                   => \A id \in UnknownEnvelopeIds, es \in EnvelopeEvents :
                         ~docusign_webhook(id, es)]_vars

\* an agreement awaits payment with pending rows while references of both
\* providers, and an envelope id, match no row
C16_Witness ==
    \E a \in AgreementIds :
        /\ agreement[a].status = "awaiting_payment"
        /\ \E i \in PaymentsOf(a) : payment[i].status = "pending"
        /\ UnknownRefs \cap StripeSessionIds # {}
        /\ UnknownRefs \cap CoinbaseChargeIds # {}
        /\ UnknownEnvelopeIds # {}

\* the envelopes of agreement a whose status is sent
SentEnvelopes(a) ==
    {i \in EnvelopesOf(a) : signature_envelope[i].status = "sent"}

\* C17: in every reachable state an agreement has at most one envelope with
\* status sent, and the initiator's create-envelope on an agreement that has
\* one is refused.
C17_OneActiveEnvelope ==
    \A a \in AgreementIds :
        /\ Cardinality(SentEnvelopes(a)) <= 1
        /\ (Exists(a) /\ SentEnvelopes(a) # {})
               => envelope_outcome(a, agreement[a].initiator_id) # Ok

\* the party rows accept may be handed for token t (0: none)
AcceptParties(t) ==
    IF PartyMatches(t.agreement_id, t.email) = {} THEN {0}
    ELSE PartyMatches(t.agreement_id, t.email)

C18_UsedTokenRefused ==
    \A t \in invite_token :
        t.is_used => /\ t.used_by_user_id # NULL
                     /\ \A u \in Users, i \in AcceptParties(t) :
                           accept_outcome(t.token, u, i) = Resp(400, "already_used", 0)

\* C18 as stated: a used token is refused with TokenAlreadyUsed by every
\* accept, and in every later step it is still there with is_used true and
\* the same used_by, and an accept with it changes nothing.
C18_UsedTokenStaysUsed ==
    /\ []C18_UsedTokenRefused
    /\ [][\A t \in invite_token :
             t.is_used => /\ t \in invite_token'
                          /\ (\E u \in Users : accept_invite(t.token, u)) => UNCHANGED db]_vars

\* C18, amended: a used token is refused with TokenAlreadyUsed by every
\* accept and an accept with it changes nothing; the token row stays as it
\* is in every step except a revoke by the agreement's initiator, which
\* deletes it, and its value is never issued again.
C18_AcceptRetryIsNoOp ==
    /\ []C18_UsedTokenRefused
    /\ [](\A t \in invite_token : t.token < next_token)
    /\ [][\A t \in invite_token :
             t.is_used =>
                /\ (\E u \in Users : accept_invite(t.token, u)) => UNCHANGED db
                /\ \/ t \in invite_token'
                   \/ /\ revoke_invite(t.token, agreement[t.agreement_id].initiator_id)
                      /\ InviteByToken(t.token)' = {}]_vars

\* a token was used by the invited roommate and has not expired: a retry of
\* the accept is stopped by is_used alone
C18_Witness ==
    \E t \in invite_token :
        /\ t.is_used
        /\ t.expires_at >= now
        /\ \E i \in PartyMatches(t.agreement_id, t.email) :
               agreement_party[i].user_id = t.used_by_user_id

\* token t is used by u and a party of its agreement with its e-mail is linked to u
C19_Accepted(t, u) ==
    /\ t.is_used
    /\ t.used_by_user_id = u
    /\ \E i \in PartyMatches(t.agreement_id, t.email) : agreement_party[i].user_id = u

C19_UsedImpliesJoined ==
    \A t \in invite_token : t.is_used => C19_Accepted(t, t.used_by_user_id)

\* C19: every step of accept either changes nothing or ends with the token
\* used by the accepting user and the party with the token's e-mail linked to
\* that user; no step links a party that had no user, or marks a token used,
\* without the other two effects; and in every reachable state a used token
\* has a joined party for its e-mail in its agreement.
C19_AcceptIsAtomic ==
    /\ []C19_UsedImpliesJoined
    /\ [][\/ UNCHANGED db
          \/ /\ \A v \in TokenValues, u \in Users :
                   accept_invite(v, u)
                       => \E t \in InviteByToken(v)' : C19_Accepted(t, u)'
             /\ \A t \in invite_token' :
                   (t.is_used /\ t \notin invite_token)
                       => C19_Accepted(t, t.used_by_user_id)'
             /\ \A i \in Indices(agreement_party) :
                   (agreement_party[i].user_id = NULL /\ agreement_party'[i].user_id # NULL)
                       => \E t \in invite_token' :
                             /\ t \notin invite_token
                             /\ t.agreement_id = agreement_party[i].agreement_id
                             /\ t.email = agreement_party[i].email
                             /\ t.is_used
                             /\ t.used_by_user_id = agreement_party'[i].user_id]_vars

\* the invited roommate has just accepted: the token is used by them, their
\* party is linked, the agreement is still inviting
C19_Witness ==
    \E t \in invite_token :
        /\ t.is_used
        /\ t.used_by_user_id # agreement[t.agreement_id].initiator_id
        /\ agreement[t.agreement_id].status = "inviting"
        /\ \E i \in PartyMatches(t.agreement_id, t.email) :
               /\ agreement_party[i].user_id = t.used_by_user_id
               /\ agreement_party[i].role = "roommate"

\* the two addresses are the same up to letter case
C20_SameIgnoringCase(e, f) ==
    \/ e = f
    \/ {e, f} = {"b@x.com", "B@x.com"}

C20_MismatchRefused ==
    \A t \in invite_token, u \in Users : \A i \in AcceptParties(t) :
        (~t.is_used /\ t.expires_at >= now) =>
            IF ~C20_SameIgnoringCase(t.email, UserEmail[u])
            THEN accept_outcome(t.token, u, i) = Resp(400, "email_mismatch", 0)
            ELSE accept_outcome(t.token, u, i).detail # "email_mismatch"

C21_Expired(t) == now > t.expires_at

C21_TokenOutcome ==
    /\ \A v \in TokenValues, u \in Users, i \in 0..Len(agreement_party) :
           InviteByToken(v) = {} => accept_outcome(v, u, i) = Resp(404, "invalid_token", 0)
    /\ \A t \in invite_token, u \in Users : \A i \in AcceptParties(t) :
           ~t.is_used =>
               IF C21_Expired(t)
               THEN accept_outcome(t.token, u, i) = Resp(400, "expired", 0)
               ELSE accept_outcome(t.token, u, i).detail # "expired"
    /\ \A t \in invite_token : t.expires_at <= now + 7

\* C21: an accept with an unknown token is answered 404 and an accept with an
\* unused token is refused as expired exactly when now is later than its
\* expires_at; a token row changes only by being issued or re-issued with
\* expires_at seven days from now, or by being accepted unexpired with its
\* expires_at kept; an accept with an unknown or expired token changes no
\* row.
C21_ExpiryBoundsAccept ==
    /\ []C21_TokenOutcome
    /\ [][\/ UNCHANGED db
          \/ /\ \A t \in invite_token' :
                    \/ t \in invite_token
                    \/ ~t.is_used /\ t.expires_at = now + 7
                    \/ /\ t.is_used
                       /\ \E s \in invite_token :
                              /\ s.token = t.token
                              /\ ~s.is_used
                              /\ ~C21_Expired(s)
                              /\ s.expires_at = t.expires_at
             /\ \A v \in TokenValues, u \in Users :
                    accept_invite(v, u) =>
                        /\ InviteByToken(v) # {}
                        /\ \A s \in InviteByToken(v) : ~C21_Expired(s)]_vars

\* an invite that was accepted while it was live, seen after its expiry day
C21_Witness ==
    \E t \in invite_token :
        /\ t.is_used
        /\ now > t.expires_at
        /\ \E i \in PartyMatches(t.agreement_id, t.email) :
               agreement_party[i].signed_at = <<>> /\ agreement_party[i].user_id = t.used_by_user_id

\* ---------------------------------------------------------------- C22
UnusedInvites(tokens, a, email) ==
    {t \in tokens : t.agreement_id = a /\ t.email = email /\ ~t.is_used}

C22_Invited(roommates, email) == \E k \in 1..Len(roommates) : roommates[k] = email

C22_OneUnusedInvite ==
    \A a \in AgreementIds, e \in Emails :
        Cardinality(UnusedInvites(invite_token, a, e)) <= 1

\* C22: in every state an (agreement, e-mail) pair has at most one unused
\* invite, and an invite request leaves each unused invite as the only unused
\* invite of its pair, with the same token value and the same fields except
\* expires_at, which becomes seven days from now when the e-mail is in the
\* request and its party has not joined.
C22_ReissueKeepsToken ==
    /\ []C22_OneUnusedInvite
    /\ [][\/ UNCHANGED db
          \/ \A a \in AgreementIds, u \in Users, rs \in InviteBodies :
                 invite_again(a, u, rs) =>
                     \A s \in invite_token :
                         (~s.is_used /\ s.agreement_id = a) =>
                             LET reissued ==
                                     /\ C22_Invited(rs, s.email)
                                     /\ \A i \in PartyMatches(a, s.email) :
                                            agreement_party[i].user_id = NULL
                                 e == IF reissued THEN now + 7 ELSE s.expires_at
                             IN UnusedInvites(invite_token', a, s.email)
                                    = {[s EXCEPT !.expires_at = e]}]_vars

\* an invite issued on day 0 and re-issued on a later day
C22_Witness ==
    \E t \in invite_token :
        /\ ~t.is_used
        /\ t.token = 1
        /\ now > 0
        /\ t.expires_at = now + 7

\* ---------------------------------------------------------------- C23
InFlight == {p \in Sessions : session[p].op # "none"}

SigningImpliesAllJoined ==
    \A a \in AgreementIds : agreement[a].status = "signing" => Unjoined(a) = {}

C25_FinalizeOutcome ==
    \A a \in AgreementIds, u \in Users :
        /\ finalize_outcome(a, u) = Ok => agreement[a].status = "draft"
        /\ (Exists(a) /\ agreement[a].status # "draft") => finalize_outcome(a, u).code >= 400
        /\ (agreement[a].status = "draft" /\ agreement[a].initiator_id = u
               /\ app_user[u].is_verified) => finalize_outcome(a, u) = Ok

\* C25: finalize is answered 200 only for an agreement in draft, and a
\* finalize step that changes anything starts in draft, sets the status to
\* awaiting_payment and changes nothing else.
C25_FinalizeOnlyFromDraft ==
    /\ []C25_FinalizeOutcome
    /\ [][\/ UNCHANGED db
          \/ \A a \in AgreementIds, u \in Users :
                 finalize_draft(a, u) =>
                     /\ agreement[a].status = "draft"
                     /\ agreement' = [agreement EXCEPT ![a].status = "awaiting_payment"]
                     /\ UNCHANGED <<agreement_party, invite_token, next_token, payment,
                                    signature_envelope>>]_vars

\* a finalized agreement, before any checkout
C25_Witness ==
    \E a \in AgreementIds :
        /\ agreement[a].status = "awaiting_payment"
        /\ PaymentsOf(a) = {}
        /\ \A u \in Users : finalize_outcome(a, u).code >= 400

\* ---------------------------------------------------------------- C26
C26_Rejected(r) == r.code \in {403, 404}

C26_NonInitiatorRejected ==
    /\ \A a \in AgreementIds, u \in Users :
           (Exists(a) /\ agreement[a].initiator_id # u) =>
               /\ C26_Rejected(update_outcome(a, u))
               /\ C26_Rejected(finalize_outcome(a, u))
               /\ C26_Rejected(pay_outcome(a, u))
               /\ C26_Rejected(invite_outcome(a, u))
               /\ C26_Rejected(envelope_outcome(a, u))
    /\ \A t \in invite_token, u \in Users :
           agreement[t.agreement_id].initiator_id # u =>
               revoke_outcome(t.token, u) = Resp(403, "not_initiator", 0)

\* C26: update, finalize, pay, invite, create-envelope and revoke-invite
\* asked by a user who is not the agreement's initiator, a joined roommate
\* included, are answered 403 or 404, and a step of one of them that changes
\* anything is the initiator's.
C26_InitiatorOnly ==
    /\ []C26_NonInitiatorRejected
    /\ [][\/ UNCHANGED db
          \/ /\ \A a \in AgreementIds, u \in Users :
                    (\/ \E body \in UpdateBodies : update_agreement(a, u, body)
                     \/ finalize_draft(a, u)
                     \/ \E o \in CheckoutOutcomesAll : initiate_payment(a, u, o[1], o[2])
                     \/ \E rs \in InviteBodies : invite_roommates(a, u, rs)
                     \/ create_docusign_envelope(a, u))
                        => agreement[a].initiator_id = u
             /\ \A v \in TokenValues, u \in Users :
                    revoke_invite(v, u) =>
                        \A t \in InviteByToken(v) : agreement[t.agreement_id].initiator_id = u]_vars

\* a verified roommate who has joined another user's agreement, whose invite
\* is still on record
C26_Witness ==
    \E a \in AgreementIds, u \in Users, i \in Indices(agreement_party) :
        /\ Exists(a)
        /\ agreement[a].initiator_id # u
        /\ app_user[u].is_verified
        /\ agreement_party[i].agreement_id = a
        /\ agreement_party[i].user_id = u
        /\ agreement_party[i].role = "roommate"
        /\ \E t \in invite_token : t.agreement_id = a /\ t.used_by_user_id = u
        /\ agreement[a].status = "signing"

\* ---------------------------------------------------------------- C27
C27_UpdateOutcome ==
    \A a \in AgreementIds, u \in Users :
        /\ update_outcome(a, u) = Ok => agreement[a].status = "draft"
        /\ (Exists(a) /\ agreement[a].status # "draft") => update_outcome(a, u).code >= 400
        /\ (agreement[a].status = "draft" /\ agreement[a].initiator_id = u
               /\ app_user[u].is_verified) => update_outcome(a, u) = Ok

\* C27: update is answered 200 only for an agreement in draft, and an update
\* step that changes anything starts in draft and changes nothing but the
\* updatable columns of the agreement: not its status, its initiator, its
\* terms, nor any party or other row.
C27_UpdateOnlyInDraft ==
    /\ []C27_UpdateOutcome
    /\ [][\/ UNCHANGED db
          \/ \A a \in AgreementIds, u \in Users, body \in UpdateBodies :
                 update_agreement(a, u, body) =>
                     /\ agreement[a].status = "draft"
                     /\ agreement' = [agreement EXCEPT ![a].title = agreement'[a].title]
                     /\ UNCHANGED <<agreement_party, invite_token, next_token, payment,
                                    signature_envelope>>]_vars

\* an agreement whose title was updated in draft and that has left draft
C27_Witness ==
    \E a \in AgreementIds :
        /\ agreement[a].title = "t2"
        /\ agreement[a].status = "awaiting_payment"
        /\ \A u \in Users : update_outcome(a, u).code >= 400

\* ---------------------------------------------------------------- C28
C28_Gated(i) ==
    agreement_party[i].requires_id_verification /\ ~agreement_party[i].id_verified

\* C28: an accept with a live unused invite by the invited user, for a party
\* row that requires identity verification and is not verified yet, is
\* answered 403 when the user is not verified and demo mode is off and
\* is let through otherwise; and every roommate party that has joined and
\* requires verification is verified.
C28_VerificationGate ==
    /\ \A t \in invite_token, u \in Users :
           \A i \in PartyMatches(t.agreement_id, t.email) :
               (/\ ~t.is_used
                /\ t.expires_at >= now
                /\ C20_SameIgnoringCase(t.email, UserEmail[u])
                /\ C28_Gated(i)) =>
                   IF app_user[u].is_verified \/ demo_mode
                   THEN accept_outcome(t.token, u, i) = Ok
                   ELSE accept_outcome(t.token, u, i) = Resp(403, "verification_required", 0)
    /\ \A i \in Indices(agreement_party) :
           (/\ agreement_party[i].role = "roommate"
            /\ agreement_party[i].user_id # NULL
            /\ agreement_party[i].requires_id_verification) =>
               agreement_party[i].id_verified

\* a roommate who joined, in demo mode and unverified, a party that requires
\* verification
C28_Witness ==
    \E i \in Indices(agreement_party) :
        /\ agreement_party[i].requires_id_verification
        /\ agreement_party[i].role = "roommate"
        /\ agreement_party[i].user_id # NULL
        /\ ~app_user[agreement_party[i].user_id].is_verified
        /\ demo_mode

\* ---------------------------------------------------------------- C29
InitiatorParties(a) == {i \in PartiesOf(a) : agreement_party[i].role = "initiator"}

\* C29: every agreement has exactly one party with role initiator, and that
\* party is linked to the agreement's initiator.
C29_OneInitiatorParty ==
    \A a \in AgreementIds :
        Exists(a) =>
            /\ Cardinality(InitiatorParties(a)) = 1
            /\ \A i \in InitiatorParties(a) :
                   agreement_party[i].user_id = agreement[a].initiator_id

\* ---------------------------------------------------------------- C30
\* C30: no agreement has two party rows with the same e-mail.
C30_NoDuplicatePartyEmail ==
    \A a \in AgreementIds : \A i, j \in PartiesOf(a) :
        agreement_party[i].email = agreement_party[j].email => i = j

\* ---------------------------------------------------------------- C31
\* C31: every agreement that exists has exactly one initiator party, linked
\* to its creator, and a Terms record.
C31_CreatedWithChildren ==
    \A a \in AgreementIds :
        Exists(a) =>
            /\ \E i \in PartiesOf(a) :
                   /\ agreement_party[i].role = "initiator"
                   /\ agreement_party[i].user_id = agreement[a].initiator_id
            /\ agreement[a].terms # NULL

\* ---------------------------------------------------------------- C32
ApprovedOf(rows, u) ==
    {i \in Indices(rows) : rows[i].user_id = u /\ rows[i].status = "approved"}

C33_CompleteOnlyRecordsInquiry ==
    [][\A u \in Users, r \in InquiryIds, st \in CompleteStatuses :
           complete_persona_verification(u, r, st) =>
               /\ app_user' = app_user
               /\ \A i \in Indices(id_verification) :
                      id_verification'[i].status = id_verification[i].status]_vars

\* ---------------------------------------------------------------- C34
\* C34: a create by a user who is not verified is answered 403, and the
\* initiator of every agreement is a verified user.
C34_CreateRequiresVerified ==
    /\ \A u \in Users : ~app_user[u].is_verified => create_outcome(u).code = 403
    /\ \A a \in AgreementIds : Exists(a) => app_user[agreement[a].initiator_id].is_verified

\* an agreement exists, next to a user who is not verified and has no party
\* in any agreement
C34_Witness ==
    /\ \E a \in AgreementIds : Exists(a)
    /\ \E u \in Users :
           /\ ~app_user[u].is_verified
           /\ \A i \in Indices(agreement_party) : agreement_party[i].user_id # u

\* ---------------------------------------------------------------- C35
\* C35: in demo mode no create, finalize, invite or accept is refused because
\* the user is not verified, and no invite on a finalized agreement is
\* refused for want of a succeeded payment.
C35_DemoModeSkipsGates ==
    demo_mode =>
        /\ \A u \in Users : create_outcome(u).detail # "not_verified"
        /\ \A a \in AgreementIds, u \in Users :
               /\ finalize_outcome(a, u).detail # "not_verified"
               /\ invite_outcome(a, u).detail # "not_verified"
               /\ agreement[a].status = "awaiting_payment" =>
                      invite_outcome(a, u).detail # "payment_required"
        /\ \A t \in invite_token, u \in Users : \A i \in AcceptParties(t) :
               accept_outcome(t.token, u, i).detail # "verification_required"

\* ---------------------------------------------------------------- C36
\* token values that were issued and are on record no more
C36_Revoked == {v \in TokenValues : v < next_token /\ InviteByToken(v) = {}}

C36_RevokedIsNotFound ==
    \A v \in C36_Revoked, u \in Users, i \in 0..Len(agreement_party) :
        accept_outcome(v, u, i) = Resp(404, "invalid_token", 0)

\* C36: a revoke that changes anything is the initiator's, deletes the rows
\* of that token value and changes no party, no agreement and no other row;
\* a value that was revoked never comes back, and every accept with it is
\* answered 404.
C36_RevokeDeletesToken ==
    /\ []C36_RevokedIsNotFound
    /\ [][\/ UNCHANGED db
          \/ /\ \A v \in C36_Revoked : v \in C36_Revoked'
             /\ \A v \in TokenValues, u \in Users :
                    revoke_invite(v, u) =>
                        /\ \A t \in InviteByToken(v) : agreement[t.agreement_id].initiator_id = u
                        /\ invite_token' = invite_token \ InviteByToken(v)
                        /\ v \in C36_Revoked'
                        /\ UNCHANGED <<agreement, agreement_party, next_token, payment,
                                       signature_envelope>>]_vars

\* a revoked invite whose placeholder party is still there, unjoined
C36_Witness ==
    /\ 1 \in C36_Revoked
    /\ \E a \in AgreementIds : Unjoined(a) # {} /\ agreement[a].status = "inviting"

C38_ExpiredStaysExpired ==
    [][\A s \in invite_token :
           (~s.is_used /\ s.expires_at < now) =>
               \A t \in invite_token' : t.token = s.token => t.expires_at < now']_vars

\* ---------------------------------------------------------------- C39
C39_PayOutcome ==
    \A a \in AgreementIds, u \in Users :
        /\ pay_outcome(a, u) = Ok => agreement[a].status = "awaiting_payment"
        /\ (Exists(a) /\ agreement[a].status # "awaiting_payment") =>
               pay_outcome(a, u).code >= 400

\* the methods of the rows a step appended to payment
C39_Recorded(a) ==
    {payment'[i].method : i \in (Len(payment) + 1)..Len(payment')}

\* C39: pay is answered 200 only for an agreement awaiting payment, and a pay
\* step that changes anything changes no agreement, keeps every payment row
\* there was and appends, for that agreement, one pending row for each method
\* whose checkout was created and none for a method whose checkout failed.
C39_PayRecordsPendingAttempts ==
    /\ []C39_PayOutcome
    /\ [][\/ UNCHANGED db
          \/ \A a \in AgreementIds, u \in Users, o \in CheckoutOutcomesAll :
                 initiate_payment(a, u, o[1], o[2]) =>
                     /\ agreement[a].status = "awaiting_payment"
                     /\ agreement' = agreement
                     /\ UNCHANGED <<agreement_party, invite_token, next_token,
                                    signature_envelope>>
                     /\ Len(payment') >= Len(payment)
                     /\ SubSeq(payment', 1, Len(payment)) = payment
                     /\ \A i \in (Len(payment) + 1)..Len(payment') :
                            payment'[i].status = "pending" /\ payment'[i].agreement_id = a
                     /\ C39_Recorded(a) = (IF o[1] THEN {"card"} ELSE {})
                                              \cup (IF o[2] THEN {"solana"} ELSE {})
                     /\ Len(payment') - Len(payment) = Cardinality(C39_Recorded(a))]_vars

\* the card checkout failed and the crypto checkout was created: the only
\* payment row is the pending crypto one and the agreement awaits payment
C39_Witness ==
    \E a \in AgreementIds :
        /\ agreement[a].status = "awaiting_payment"
        /\ Len(payment) = 1
        /\ payment[1].method = "solana"
        /\ payment[1].status = "pending"


\* C40: the requires_id_verification value the initiator supplies for a
\* roommate in the create body is stored on that roommate's party row: every
\* create that writes leaves, for each body party, a row of that e-mail and
\* role carrying the supplied flag.
C40_SuppliedFlagStored ==
    [][UNCHANGED db \/
       \A a \in AgreementIds, u \in Users, ps \in CreateBodies :
           create_agreement(a, u, ps) =>
               \A i \in Indices(ps) :
                   agreement_party'[Len(agreement_party) + 1 + i]
                       .requires_id_verification
                   = ps[i].requires_id_verification]_vars
====
